---- MODULE Spec2Model ----
(***************************************************************************)
(* A model of src/src/endpoint.rs: the Endpoint trait's execution entry    *)
(* points (exec, exec_mut, exec_wrap, exec_wrap_mut, exec_raw,             *)
(* exec_raw_mut and their *_block forms), the MiddleWare trait, and the    *)
(* free functions build, build_mut, exec, exec_mut, exec_block and         *)
(* exec_mut_block.  crate::http (build_body, build_request, parse) and     *)
(* crate::client (Client::base, Client::execute) are called by that file   *)
(* and are modelled from their documented contract.                        *)
(*                                                                         *)
(* One call of an entry point is a small sequential process.  Its inputs   *)
(* (the entry point, the client's base URL, the endpoint value, the        *)
(* middleware's behaviour and the transport's behaviour) are fixed when    *)
(* the call starts; every step of the call is one action.                  *)
(***************************************************************************)
EXTENDS Integers, Sequences, FiniteSets, TLC

\* Largest number carried by an endpoint field, a data override or a
\* response document.
MaxVal == 1

Vals == 1..MaxVal

----------------------------------------------------------------------------
(* Option and Result values.                                               *)

None == [tag |-> "None"]
Some(v) == [tag |-> "Some", value |-> v]
Ok(v) == [tag |-> "Ok", value |-> v]
Err(e) == [tag |-> "Err", error |-> e]

IsSome(o) == o.tag = "Some"
IsOk(r) == r.tag = "Ok"
IsErr(r) == r.tag = "Err"

----------------------------------------------------------------------------
(* Bytes: sequences of byte values.  Text is written as its ASCII bytes.   *)

EmptyBytes == << >>

\* the text null
JsonNull == <<110, 117, 108, 108>>

\* the text {}
JsonEmptyObject == <<123, 125>>

\* the decimal text of a one-digit number
DigitText(v) == <<48 + v>>

\* the text {"n":v}, the serialization of an endpoint struct with one field n
FieldsDoc(v) == <<123, 34, 110, 34, 58>> \o DigitText(v) \o <<125>>

\* the text {"d":v}, a response envelope enclosing the result v
WrapperDoc(v) == <<123, 34, 100, 34, 58>> \o DigitText(v) \o <<125>>

\* the text x, which is not JSON
GarbageText == <<120>>

\* a single byte 0xFF, which is not valid UTF-8
NotUtf8 == <<255>>

\* std::str::from_utf8 restricted to single-byte code points: a byte above
\* 0x7F that does not start a well-formed multi-byte sequence is rejected.
from_utf8(b) ==
    IF \A i \in 1..Len(b) : b[i] < 128 THEN Ok(b) ELSE Err("Utf8Error")

----------------------------------------------------------------------------
(* serde_json on the types of the model.                                   *)

\* serde_json::to_string of the endpoint struct: a unit struct gives null,
\* a struct without serialized fields gives {}, a struct with the field n
\* gives {"n":v}, and a Serialize implementation may fail.
to_json(fields) ==
    CASE fields.kind = "unit" -> Ok(JsonNull)
      [] fields.kind = "empty" -> Ok(JsonEmptyObject)
      [] fields.kind = "named" -> Ok(FieldsDoc(fields.n))
      [] OTHER -> Err("SerdeError")

\* A digit byte's value.
IsDigit(b) == b \in {48 + v : v \in 0..9}

\* serde_json::from_slice into the target type: the endpoint's Result is a
\* number, the Wrapper is an envelope {"d":<number>} enclosing a Result.
from_json(target, body) ==
    IF target = "Result"
    THEN IF Len(body) = 1 /\ IsDigit(body[1])
         THEN Ok([type |-> "Result", v |-> body[1] - 48])
         ELSE Err("SerdeError")
    ELSE IF /\ Len(body) = 7
            /\ SubSeq(body, 1, 5) = <<123, 34, 100, 34, 58>>
            /\ IsDigit(body[6])
            /\ body[7] = 125
         THEN Ok([type |-> "Wrapper", d |-> body[6] - 48])
         ELSE Err("SerdeError")

----------------------------------------------------------------------------
(* ClientError values.                                                     *)

UrlParseError(url) == [kind |-> "UrlParseError", url |-> url]
DataParseError == [kind |-> "DataParseError", source |-> "SerdeError"]
ResponseParseError(content) ==
    [kind |-> "ResponseParseError", source |-> "SerdeError", content |-> content]

\* The error the transport raises, and the errors the two hooks raise.
TransportError == [kind |-> "RequestError", source |-> "connection refused"]
RequestHookError == [kind |-> "GenericError", source |-> "request rejected"]
ResponseHookError == [kind |-> "GenericError", source |-> "api error in body"]

----------------------------------------------------------------------------
(* crate::http: the request builder and the response parser.               *)

\* A URL string is held as its pieces between '/' characters:
\* "http://api.example.com/api" is <<"http:", "", "api.example.com", "api">>.
\* Url::parse accepts a scheme, an empty piece and a non-empty host, and
\* keeps the rest as the path segments.
parse_url(base) ==
    IF /\ Len(base) >= 3
       /\ base[1] \in {"http:", "https:"}
       /\ base[2] = ""
       /\ base[3] # ""
    THEN Ok([scheme |-> base[1], host |-> base[3],
             segments |-> SubSeq(base, 4, Len(base)), query |-> << >>])
    ELSE Err(UrlParseError(base))

\* build_request: parse the base, extend its path segments by the pieces of
\* the endpoint path, attach the query parameters, set method and body.
build_request(base, path, method, query, body) ==
    LET u == parse_url(base) IN
    IF IsErr(u) THEN u
    ELSE Ok([url |-> [u.value EXCEPT !.segments = @ \o path, !.query = query],
             method |-> method,
             headers |-> {},
             body |-> body])

\* build_body that sends the serialization as it is, {} and null included.
build_body_keepsEmptyObject(fields, ty, data) ==
    IF IsSome(data)
    THEN [result |-> Ok(data.value), events |-> << >>]
    ELSE LET s == to_json(fields) IN
         [result |-> IF IsErr(s) THEN Err(DataParseError) ELSE s,
          events |-> <<"serialize">>]

\* build_body: the data override verbatim when present; otherwise the JSON
\* serialization of the endpoint, with {} and null replaced by no body.
\* events lists the collaborators it invoked.
build_body(fields, ty, data) ==
    IF IsSome(data)
    THEN [result |-> Ok(data.value), events |-> << >>]
    ELSE LET s == to_json(fields) IN
         [result |-> IF IsErr(s) THEN Err(DataParseError)
                     ELSE IF s.value \in {JsonNull, JsonEmptyObject}
                          THEN Ok(EmptyBytes)
                          ELSE s,
          events |-> <<"serialize">>]

\* parse that reports the body as text whether or not it is valid UTF-8.
parse_alwaysText(ty, body, target) ==
    IF Len(body) = 0
    THEN [result |-> Ok(None), events |-> << >>]
    ELSE LET v == from_json(target, body) IN
         [result |-> IF IsOk(v) THEN Ok(Some(v.value))
                     ELSE Err(ResponseParseError(Some(body))),
          events |-> <<"deserialize">>]

\* parse that deserializes every body, the zero-length one included.
parse_deserializesEmpty(ty, body, target) ==
    LET v == from_json(target, body)
        text == from_utf8(body) IN
    [result |-> IF IsOk(v) THEN Ok(Some(v.value))
                ELSE Err(ResponseParseError(
                         IF IsOk(text) THEN Some(text.value) ELSE None)),
     events |-> <<"deserialize">>]

\* parse: a zero-length body is "no result"; any other body is deserialized
\* into the target type, and a failure keeps the body as text when it is
\* valid UTF-8.
parse(ty, body, target) ==
    IF Len(body) = 0
    THEN [result |-> Ok(None), events |-> << >>]
    ELSE LET v == from_json(target, body)
             text == from_utf8(body) IN
         [result |-> IF IsOk(v) THEN Ok(Some(v.value))
                     ELSE Err(ResponseParseError(
                              IF IsOk(text) THEN Some(text.value) ELSE None)),
          events |-> <<"deserialize">>]

----------------------------------------------------------------------------
(* The Endpoint trait.                                                     *)

\* The body formats an endpoint can declare.
REQUEST_BODY_TYPE == "JSON"
RESPONSE_BODY_TYPE == "JSON"

\* Endpoint::query: the endpoint's override, or no parameters by default.
query(endpoint) ==
    IF IsSome(endpoint.query) THEN endpoint.query.value ELSE << >>

\* Endpoint::data: the endpoint's override, or None by default.
data(endpoint) ==
    IF IsSome(endpoint.data) THEN Some(endpoint.data.value) ELSE None

\* The twelve execution entry points: with or without middleware, blocking
\* or asynchronous, and returning the typed Result, the Wrapper or raw bytes.
EntryPoint(name, mut, block, shape) ==
    [name |-> name, mut |-> mut, block |-> block, shape |-> shape]

EntryPoints ==
    { EntryPoint("exec", FALSE, FALSE, "typed"),
      EntryPoint("exec_mut", TRUE, FALSE, "typed"),
      EntryPoint("exec_wrap", FALSE, FALSE, "wrap"),
      EntryPoint("exec_wrap_mut", TRUE, FALSE, "wrap"),
      EntryPoint("exec_raw", FALSE, FALSE, "raw"),
      EntryPoint("exec_raw_mut", TRUE, FALSE, "raw"),
      EntryPoint("exec_block", FALSE, TRUE, "typed"),
      EntryPoint("exec_mut_block", TRUE, TRUE, "typed"),
      EntryPoint("exec_wrap_block", FALSE, TRUE, "wrap"),
      EntryPoint("exec_wrap_mut_block", TRUE, TRUE, "wrap"),
      EntryPoint("exec_raw_block", FALSE, TRUE, "raw"),
      EntryPoint("exec_raw_mut_block", TRUE, TRUE, "raw") }

----------------------------------------------------------------------------
(* The MiddleWare trait.  An implementation is given by what each of its   *)
(* hooks does to the value it is handed.                                   *)

\* The header a request hook adds.
AuthHeader == <<"Authorization", "Bearer T">>

\* The body a request hook writes.
HookRequestBody == GarbageText

RequestHooks ==
    { [op |-> "fail"], [op |-> "keep"], [op |-> "add_header"], [op |-> "set_body"] }

ResponseHooks ==
    { [op |-> "fail"], [op |-> "keep"] }
    \cup { [op |-> "set_body", body |-> b] :
             b \in {EmptyBytes} \cup { DigitText(v) : v \in Vals } }

\* MiddleWare::request(endpoint, &mut req)
MiddleWare_request(middle, endpoint, r) ==
    CASE middle.request.op = "fail" -> Err(RequestHookError)
      [] middle.request.op = "add_header" ->
            Ok([r EXCEPT !.headers = @ \cup {AuthHeader}])
      [] middle.request.op = "set_body" ->
            Ok([r EXCEPT !.body = HookRequestBody])
      [] OTHER -> Ok(r)

\* MiddleWare::response(endpoint, &mut resp)
MiddleWare_response(middle, endpoint, r) ==
    CASE middle.response.op = "fail" -> Err(ResponseHookError)
      [] middle.response.op = "set_body" ->
            Ok([r EXCEPT !.body = middle.response.body])
      [] OTHER -> Ok(r)

----------------------------------------------------------------------------
(* The Client collaborator.  A transport is given by what execute returns. *)

TransportBodies ==
    {EmptyBytes, GarbageText, NotUtf8}
    \cup { DigitText(v) : v \in Vals }
    \cup { WrapperDoc(v) : v \in Vals }

Transports ==
    {Err(TransportError)} \cup { Ok(b) : b \in TransportBodies }

\* A transport that answers each request with the body of that request.
EchoTransport == [tag |-> "Echo"]

\* Client::execute(req)
Client_execute(client, r) ==
    IF IsErr(client.transport) THEN client.transport
    ELSE IF client.transport = EchoTransport
    THEN Ok([status |-> 200, headers |-> {}, body |-> r.body])
    ELSE Ok([status |-> 200, headers |-> {}, body |-> client.transport.value])

----------------------------------------------------------------------------
(* The inputs of a call.                                                   *)

Bases ==
    { <<"http:", "", "api.example.com">>,
      <<"http:", "", "api.example.com", "api">>,
      <<"api.example.com">> }

Fields ==
    { [kind |-> "unit"], [kind |-> "empty"], [kind |-> "unserializable"] }
    \cup { [kind |-> "named", n |-> v] : v \in Vals }

Datas == { None, Some(EmptyBytes), Some(JsonEmptyObject) }

Routes ==
    { [path |-> <<"v1", "items">>, method |-> "GET", query |-> None],
      [path |-> <<"x">>, method |-> "POST", query |-> Some(<< <<"a", "1">> >>)] }

Endpoints ==
    { [fields |-> f, data |-> d, path |-> r.path, method |-> r.method,
       query |-> r.query] : f \in Fields, d \in Datas, r \in Routes }

Clients == { [base |-> b, transport |-> t] : b \in Bases, t \in Transports }

MiddleWares == { [request |-> q, response |-> p] :
                   q \in RequestHooks, p \in ResponseHooks }

\* The middleware an entry point takes: the entry points without middleware
\* take none.
MiddleFor(entry) ==
    IF entry.mut THEN { Some(w) : w \in MiddleWares } ELSE {None}

\* The inputs of one call of an entry point.
CallInput(entry, client, endpoint, middle) ==
    [entry |-> entry, client |-> client, endpoint |-> endpoint, middle |-> middle]

----------------------------------------------------------------------------
(* State.                                                                  *)

VARIABLES
    call,   \* call[c]: the inputs of call c
    pc,     \* pc[c]: where call c is in its entry point
    req,    \* req[c]: the Request the call holds, once built
    sent,   \* sent[c]: the Request the client's execute received
    resp,   \* resp[c]: the Response the call holds, once received
    ret,    \* ret[c]: what the entry point returned, once it has
    log,    \* log[c]: the functions call c has invoked, in order
    running \* the asynchronous call the executor is polling; 0 when idle

vars == <<call, pc, req, sent, resp, ret, log, running>>

CallIds == DOMAIN pc

\* The entry points have been entered and nothing is built yet.
Entered(ids) ==
    /\ pc = [c \in ids |-> "build"]
    /\ req = [c \in ids |-> None]
    /\ sent = [c \in ids |-> None]
    /\ resp = [c \in ids |-> None]
    /\ ret = [c \in ids |-> None]
    /\ log = [c \in ids |-> << >>]
    /\ running = 0

\* An asynchronous call is a task of a cooperative executor, which polls one
\* task at a time: the call takes a step when the executor is idle or is
\* polling it.  A blocking call runs on its caller's thread.
Scheduled(c) == IF call[c].entry.block THEN TRUE ELSE running \in {0, c}

\* The executor after a step of call c that does not give up control.
Polling(c) == IF call[c].entry.block THEN running ELSE c

\* The executor after call c gave up control: at an .await that is pending,
\* or when the call's future has completed.
Yielded(c) == IF call[c].entry.block THEN running ELSE 0

\* One call, of any entry point, with any inputs.
Init ==
    /\ \E entry \in EntryPoints, client \in Clients, endpoint \in Endpoints :
           \E middle \in MiddleFor(entry) :
               call = [c \in {1} |-> CallInput(entry, client, endpoint, middle)]
    /\ Entered({1})

\* The entry point returns r: the call is over.
Return(c, r, events) ==
    /\ Scheduled(c)
    /\ ret' = [ret EXCEPT ![c] = Some(r)]
    /\ log' = [log EXCEPT ![c] = @ \o events]
    /\ pc' = [pc EXCEPT ![c] = "done"]
    /\ running' = Yielded(c)

\* The call goes on to the statement at label next.
Goto(c, next, events) ==
    /\ Scheduled(c)
    /\ log' = [log EXCEPT ![c] = @ \o events]
    /\ pc' = [pc EXCEPT ![c] = next]
    /\ running' = Polling(c)
    /\ UNCHANGED ret

\* The call waits at label next for the answer to a request it has handed
\* over: client.execute(req).await suspends an asynchronous call, and
\* client.execute(req) blocks the thread of a blocking one.
Wait(c, next, events) ==
    /\ Scheduled(c)
    /\ log' = [log EXCEPT ![c] = @ \o events]
    /\ pc' = [pc EXCEPT ![c] = next]
    /\ running' = Yielded(c)
    /\ UNCHANGED ret

----------------------------------------------------------------------------
(* fn build and the first statement of fn build_mut.                       *)

\* build without the endpoint's query parameters handed to build_request.
build_dropsQuery(base, endpoint) ==
    LET b == build_body(endpoint.fields, REQUEST_BODY_TYPE, data(endpoint)) IN
    IF IsErr(b.result)
    THEN [result |-> b.result, events |-> <<"build_body">> \o b.events]
    ELSE [result |-> build_request(base, endpoint.path, endpoint.method,
                                   << >>, b.result.value),
          events |-> <<"build_body">> \o b.events \o <<"build_request">>]

\* build without the endpoint's data override handed to build_body.
build_ignoresData(base, endpoint) ==
    LET b == build_body(endpoint.fields, REQUEST_BODY_TYPE, None) IN
    IF IsErr(b.result)
    THEN [result |-> b.result, events |-> <<"build_body">> \o b.events]
    ELSE [result |-> build_request(base, endpoint.path, endpoint.method,
                                   query(endpoint), b.result.value),
          events |-> <<"build_body">> \o b.events \o <<"build_request">>]

build(base, endpoint) ==
    LET b == build_body(endpoint.fields, REQUEST_BODY_TYPE, data(endpoint)) IN
    IF IsErr(b.result)
    THEN [result |-> b.result, events |-> <<"build_body">> \o b.events]
    ELSE [result |-> build_request(base, endpoint.path, endpoint.method,
                                   query(endpoint), b.result.value),
          events |-> <<"build_body">> \o b.events \o <<"build_request">>]

\* build_mut_request with a failed body replaced by no body instead of
\* returned by `?`.
build_mut_request_defaultsBody(base, endpoint) ==
    LET b == build_body(endpoint.fields, REQUEST_BODY_TYPE, data(endpoint)) IN
    [result |-> build_request(base, endpoint.path, endpoint.method,
                              query(endpoint),
                              IF IsErr(b.result) THEN EmptyBytes
                              ELSE b.result.value),
     events |-> <<"build_body">> \o b.events \o <<"build_request">>]

build_mut_request(base, endpoint) ==
    LET b == build_body(endpoint.fields, REQUEST_BODY_TYPE, data(endpoint)) IN
    IF IsErr(b.result)
    THEN [result |-> b.result, events |-> <<"build_body">> \o b.events]
    ELSE [result |-> build_request(base, endpoint.path, endpoint.method,
                                   query(endpoint), b.result.value),
          events |-> <<"build_body">> \o b.events \o <<"build_request">>]

----------------------------------------------------------------------------
(* The steps of a call.                                                    *)

\* let req = build(client.base(), self)?;
Build(c) ==
    /\ pc[c] = "build"
    /\ ~call[c].entry.mut
    /\ LET b == build(call[c].client.base, call[c].endpoint) IN
       IF IsErr(b.result)
       THEN /\ Return(c, b.result, b.events)
            /\ UNCHANGED req
       ELSE /\ req' = [req EXCEPT ![c] = Some(b.result.value)]
            /\ Goto(c, "execute", b.events)
    /\ UNCHANGED <<call, sent, resp>>

\* let req = build_mut(client.base(), self, middle)?;  up to the request built
BuildMut(c) ==
    /\ pc[c] = "build"
    /\ call[c].entry.mut
    /\ LET b == build_mut_request(call[c].client.base, call[c].endpoint) IN
       IF IsErr(b.result)
       THEN /\ Return(c, b.result, b.events)
            /\ UNCHANGED req
       ELSE /\ req' = [req EXCEPT ![c] = Some(b.result.value)]
            /\ Goto(c, "middle_request", b.events)
    /\ UNCHANGED <<call, sent, resp>>

\* MiddleRequest with the hook run on a copy of the request: the call keeps
\* the request as built.
MiddleRequest_onCopy(c) ==
    /\ pc[c] = "middle_request"
    /\ LET h == MiddleWare_request(call[c].middle.value, call[c].endpoint,
                                   req[c].value) IN
       IF IsErr(h)
       THEN Return(c, h, <<"middle.request">>)
       ELSE Goto(c, "execute", <<"middle.request">>)
    /\ UNCHANGED <<call, req, sent, resp>>

\* MiddleRequest with the hook's result dropped instead of returned by `?`.
MiddleRequest_ignoresErr(c) ==
    /\ pc[c] = "middle_request"
    /\ LET h == MiddleWare_request(call[c].middle.value, call[c].endpoint,
                                   req[c].value) IN
       /\ req' = [req EXCEPT ![c] = IF IsErr(h) THEN @ ELSE Some(h.value)]
       /\ Goto(c, "execute", <<"middle.request">>)
    /\ UNCHANGED <<call, sent, resp>>

\* MiddleRequest that suspends after the hook, as if the hook were awaited.
MiddleRequest_awaits(c) ==
    /\ pc[c] = "middle_request"
    /\ LET h == MiddleWare_request(call[c].middle.value, call[c].endpoint,
                                   req[c].value) IN
       IF IsErr(h)
       THEN /\ Return(c, h, <<"middle.request">>)
            /\ UNCHANGED req
       ELSE /\ req' = [req EXCEPT ![c] = Some(h.value)]
            /\ Wait(c, "execute", <<"middle.request">>)
    /\ UNCHANGED <<call, sent, resp>>

\* middle.request(endpoint, &mut req)?; Ok(req)
MiddleRequest(c) ==
    /\ pc[c] = "middle_request"
    /\ LET h == MiddleWare_request(call[c].middle.value, call[c].endpoint,
                                   req[c].value) IN
       IF IsErr(h)
       THEN /\ Return(c, h, <<"middle.request">>)
            /\ UNCHANGED req
       ELSE /\ req' = [req EXCEPT ![c] = Some(h.value)]
            /\ Goto(c, "execute", <<"middle.request">>)
    /\ UNCHANGED <<call, sent, resp>>

\* ClientExecute with one request slot in the client for all calls: every
\* call in flight is answered for the request handed over last.
ClientExecute_oneSlot(c, waiting) ==
    /\ pc[c] = "execute"
    /\ sent' = [d \in CallIds |-> IF d = c \/ IsSome(sent[d]) THEN req[c]
                                   ELSE sent[d]]
    /\ Wait(c, waiting, <<"client.execute">>)
    /\ UNCHANGED <<call, req, resp>>

\* client.execute(req): the client receives the request the call holds, and
\* the call waits for the transport.
ClientExecute(c, waiting) ==
    /\ pc[c] = "execute"
    /\ sent' = [sent EXCEPT ![c] = req[c]]
    /\ Wait(c, waiting, <<"client.execute">>)
    /\ UNCHANGED <<call, req, resp>>

exec(c) ==
    /\ ~call[c].entry.mut /\ ~call[c].entry.block
    /\ ClientExecute(c, "awaiting")

exec_mut(c) ==
    /\ call[c].entry.mut /\ ~call[c].entry.block
    /\ ClientExecute(c, "awaiting")

exec_block(c) ==
    /\ ~call[c].entry.mut /\ call[c].entry.block
    /\ ClientExecute(c, "blocked")

exec_mut_block(c) ==
    /\ call[c].entry.mut /\ call[c].entry.block
    /\ ClientExecute(c, "blocked")

\* ExecuteReturns with the transport's error wrapped in another error
\* instead of returned as it is.
ExecuteReturns_wrapsErr(c) ==
    /\ pc[c] \in {"awaiting", "blocked"}
    /\ LET r == Client_execute(call[c].client, sent[c].value) IN
       IF IsErr(r)
       THEN /\ Return(c, Err([kind |-> "GenericError", source |-> r.error]),
                      <<"client.execute returns Err">>)
            /\ UNCHANGED resp
       ELSE /\ resp' = [resp EXCEPT ![c] = Some(r.value)]
            /\ Goto(c, IF call[c].entry.mut THEN "middle_response" ELSE "output",
                    <<"client.execute returns Ok">>)
    /\ UNCHANGED <<call, req, sent>>

\* ExecuteReturns with one more attempt after a transport error.
ExecuteReturns_retries(c) ==
    /\ pc[c] \in {"awaiting", "blocked"}
    /\ LET r == Client_execute(call[c].client, sent[c].value) IN
       IF IsErr(r)
       THEN /\ IF Len(SelectSeq(log[c], LAMBDA e : e = "client.execute")) < 2
               THEN Goto(c, "execute", <<"client.execute returns Err">>)
               ELSE Return(c, r, <<"client.execute returns Err">>)
            /\ UNCHANGED resp
       ELSE /\ resp' = [resp EXCEPT ![c] = Some(r.value)]
            /\ Goto(c, IF call[c].entry.mut THEN "middle_response" ELSE "output",
                    <<"client.execute returns Ok">>)
    /\ UNCHANGED <<call, req, sent>>

\* ExecuteReturns that goes on to the output without the response hook.
ExecuteReturns_skipsHook(c) ==
    /\ pc[c] \in {"awaiting", "blocked"}
    /\ LET r == Client_execute(call[c].client, sent[c].value) IN
       IF IsErr(r)
       THEN /\ Return(c, r, <<"client.execute returns Err">>)
            /\ UNCHANGED resp
       ELSE /\ resp' = [resp EXCEPT ![c] = Some(r.value)]
            /\ Goto(c, "output", <<"client.execute returns Ok">>)
    /\ UNCHANGED <<call, req, sent>>

\* The transport answers: client.execute(req) returns, and its error is
\* returned by `?`.
ExecuteReturns(c) ==
    /\ pc[c] \in {"awaiting", "blocked"}
    /\ LET r == Client_execute(call[c].client, sent[c].value) IN
       IF IsErr(r)
       THEN /\ Return(c, r, <<"client.execute returns Err">>)
            /\ UNCHANGED resp
       ELSE /\ resp' = [resp EXCEPT ![c] = Some(r.value)]
            /\ Goto(c, IF call[c].entry.mut THEN "middle_response" ELSE "output",
                    <<"client.execute returns Ok">>)
    /\ UNCHANGED <<call, req, sent>>

\* MiddleResponse with the hook run on a copy of the response: the call
\* keeps the response the transport produced.
MiddleResponse_onCopy(c) ==
    /\ pc[c] = "middle_response"
    /\ LET h == MiddleWare_response(call[c].middle.value, call[c].endpoint,
                                    resp[c].value) IN
       IF IsErr(h)
       THEN Return(c, h, <<"middle.response">>)
       ELSE Goto(c, "output", <<"middle.response">>)
    /\ UNCHANGED <<call, req, sent, resp>>

\* MiddleResponse with the hook's result dropped instead of returned by `?`.
MiddleResponse_ignoresErr(c) ==
    /\ pc[c] = "middle_response"
    /\ LET h == MiddleWare_response(call[c].middle.value, call[c].endpoint,
                                    resp[c].value) IN
       /\ resp' = [resp EXCEPT ![c] = IF IsErr(h) THEN @ ELSE Some(h.value)]
       /\ Goto(c, "output", <<"middle.response">>)
    /\ UNCHANGED <<call, req, sent>>

\* middle.response(endpoint, &mut resp)?; Ok(resp)
MiddleResponse(c) ==
    /\ pc[c] = "middle_response"
    /\ LET h == MiddleWare_response(call[c].middle.value, call[c].endpoint,
                                    resp[c].value) IN
       IF IsErr(h)
       THEN /\ Return(c, h, <<"middle.response">>)
            /\ UNCHANGED resp
       ELSE /\ resp' = [resp EXCEPT ![c] = Some(h.value)]
            /\ Goto(c, "output", <<"middle.response">>)
    /\ UNCHANGED <<call, req, sent>>

\* exec_mut: middle.response(endpoint, &mut resp)?; Ok(resp)
exec_mut_response(c) ==
    /\ ~call[c].entry.block
    /\ MiddleResponse(c)

\* exec_mut_block that returns the response without the response hook.
exec_mut_block_response_skipsHook(c) ==
    /\ call[c].entry.block
    /\ pc[c] = "middle_response"
    /\ Goto(c, "output", << >>)
    /\ UNCHANGED <<call, req, sent, resp>>

\* exec_mut_block: middle.response(endpoint, &mut resp)?; Ok(resp)
exec_mut_block_response(c) ==
    /\ call[c].entry.block
    /\ MiddleResponse(c)

\* Parse handed the body the transport produced, not the body the call holds.
Parse_beforeHook(c) ==
    /\ pc[c] = "output"
    /\ call[c].entry.shape \in {"typed", "wrap"}
    /\ LET p == parse(RESPONSE_BODY_TYPE,
                      Client_execute(call[c].client, sent[c].value).value.body,
                      IF call[c].entry.shape = "wrap" THEN "Wrapper" ELSE "Result") IN
       Return(c, p.result, <<"parse">> \o p.events)
    /\ UNCHANGED <<call, req, sent, resp>>

\* crate::http::parse(Self::RESPONSE_BODY_TYPE, resp.body())
Parse(c) ==
    /\ pc[c] = "output"
    /\ call[c].entry.shape \in {"typed", "wrap"}
    /\ LET p == parse(RESPONSE_BODY_TYPE, resp[c].value.body,
                      IF call[c].entry.shape = "wrap" THEN "Wrapper" ELSE "Result") IN
       Return(c, p.result, <<"parse">> \o p.events)
    /\ UNCHANGED <<call, req, sent, resp>>

\* Raw that runs the response parser on the body before returning the bytes.
Raw_validates(c) ==
    /\ pc[c] = "output"
    /\ call[c].entry.shape = "raw"
    /\ LET p == parse(RESPONSE_BODY_TYPE, resp[c].value.body, "Result") IN
       Return(c, IF IsErr(p.result) THEN p.result ELSE Ok(resp[c].value.body),
              <<"raw">>)
    /\ UNCHANGED <<call, req, sent, resp>>

\* Ok(resp.body().clone())
Raw(c) ==
    /\ pc[c] = "output"
    /\ call[c].entry.shape = "raw"
    /\ Return(c, Ok(resp[c].value.body), <<"raw">>)
    /\ UNCHANGED <<call, req, sent, resp>>

Next ==
    \/ \E c \in CallIds : Build(c)
    \/ \E c \in CallIds : BuildMut(c)
    \/ \E c \in CallIds : MiddleRequest(c)
    \/ \E c \in CallIds : exec(c)
    \/ \E c \in CallIds : exec_mut(c)
    \/ \E c \in CallIds : exec_block(c)
    \/ \E c \in CallIds : exec_mut_block(c)
    \/ \E c \in CallIds : ExecuteReturns(c)
    \/ \E c \in CallIds : exec_mut_response(c)
    \/ \E c \in CallIds : exec_mut_block_response(c)
    \/ \E c \in CallIds : Parse(c)
    \/ \E c \in CallIds : Raw(c)

Spec == Init /\ [][Next]_vars

----------------------------------------------------------------------------
(* Two calls with the same inputs, one through an asynchronous entry point *)
(* and one through its blocking form.                                      *)

\* The inputs the two-call specifications draw from.
PairEndpoints ==
    { e \in Endpoints :
        /\ e.path = <<"v1", "items">>
        /\ e.fields.kind \in {"empty", "named", "unserializable"}
        /\ e.data \in {None, Some(JsonEmptyObject)} }

PairClients ==
    { cl \in Clients : cl.base # <<"http:", "", "api.example.com", "api">> }

\* The blocking form of an asynchronous entry point: exec_mut_block of
\* exec_mut, and so on.
BlockForm(entry) ==
    CHOOSE e \in EntryPoints :
        e.block /\ e.mut = entry.mut /\ e.shape = entry.shape

InitPair ==
    /\ \E entry \in { e \in EntryPoints : ~e.block },
          client \in PairClients, endpoint \in PairEndpoints :
           \E middle \in MiddleFor(entry) :
               call = [c \in {1, 2} |->
                          CallInput(IF c = 1 THEN entry ELSE BlockForm(entry),
                                    client, endpoint, middle)]
    /\ Entered({1, 2})

SpecPair == InitPair /\ [][Next]_vars

----------------------------------------------------------------------------
(* Two calls with the same inputs, one through an entry point without      *)
(* middleware and one through its _mut form with a middleware whose hooks  *)
(* change nothing and return Ok(()).                                       *)

NoOpMiddleWare == [request |-> [op |-> "keep"], response |-> [op |-> "keep"]]

\* The middleware form of an entry point: exec_mut of exec, exec_mut_block of
\* exec_block, and so on.
MutForm(entry) ==
    CHOOSE e \in EntryPoints :
        e.mut /\ e.block = entry.block /\ e.shape = entry.shape

InitNoOp ==
    /\ \E entry \in { e \in EntryPoints : ~e.mut },
          client \in Clients, endpoint \in Endpoints :
           call = [c \in {1, 2} |->
                      IF c = 1
                      THEN CallInput(entry, client, endpoint, None)
                      ELSE CallInput(MutForm(entry), client, endpoint,
                                     Some(NoOpMiddleWare))]
    /\ Entered({1, 2})

SpecNoOp == InitNoOp /\ [][Next]_vars

----------------------------------------------------------------------------
(* Concurrent calls: two tasks of one executor, each in an asynchronous    *)
(* entry point, and a thread in a blocking entry point; each call has its  *)
(* own endpoint, and all have the same client and the same middleware.     *)

ConcCalls == {1, 2, 3}

\* The entry points call c may be in.
ConcEntries(c) ==
    { e \in EntryPoints :
        e.name \in IF c = 3 THEN {"exec_wrap_block", "exec_mut_block"}
                   ELSE {"exec", "exec_raw_mut"} }

ConcEndpoints ==
    { [fields |-> [kind |-> "named", n |-> MaxVal], data |-> None,
       path |-> <<"v1", "items">>, method |-> "GET", query |-> None],
      [fields |-> [kind |-> "empty"], data |-> Some(DigitText(MaxVal)),
       path |-> <<"x">>, method |-> "POST",
       query |-> Some(<< <<"a", "1">> >>)] }

ConcClients ==
    { [base |-> <<"http:", "", "api.example.com">>, transport |-> t] :
        t \in {Err(TransportError), Ok(WrapperDoc(MaxVal)), EchoTransport} }

ConcMiddleWares ==
    { [request |-> [op |-> "add_header"], response |-> [op |-> "keep"]],
      [request |-> [op |-> "keep"],
       response |-> [op |-> "set_body", body |-> DigitText(MaxVal)]],
      [request |-> [op |-> "set_body"], response |-> [op |-> "fail"]] }

InitConc ==
    /\ \E client \in ConcClients,
          e1 \in ConcEntries(1), e2 \in ConcEntries(2), e3 \in ConcEntries(3),
          endpoint \in [ConcCalls -> ConcEndpoints] :
         LET entry == <<e1, e2, e3>> IN
         \E middle \in IF \E c \in ConcCalls : entry[c].mut
                       THEN ConcMiddleWares
                       ELSE {CHOOSE w \in ConcMiddleWares : TRUE} :
             call = [c \in ConcCalls |->
                        CallInput(entry[c], client, endpoint[c],
                                  IF entry[c].mut THEN Some(middle) ELSE None)]
    /\ Entered(ConcCalls)

SpecConc == InitConc /\ [][Next]_vars

----------------------------------------------------------------------------
(* Reading a call's log and inputs.                                        *)

Has(l, e) == \E i \in 1..Len(l) : l[i] = e

Count(l, e) == Cardinality({ i \in 1..Len(l) : l[i] = e })

\* The place of the first e in l; 0 when there is none.
Pos(l, e) ==
    IF Has(l, e) THEN CHOOSE i \in 1..Len(l) : l[i] = e /\ \A j \in 1..(i - 1) : l[j] # e
    ELSE 0

\* e1 and e2 both happened, e1 first.
Before(l, e1, e2) == Has(l, e1) /\ Has(l, e2) /\ Pos(l, e1) < Pos(l, e2)

IsMut(c) == call[c].entry.mut
IsDone(c) == pc[c] = "done"

\* The inputs for which request building fails: the base that is no URL,
\* and an endpoint without data override whose fields do not serialize.
MalformedBase(c) == call[c].client.base = <<"api.example.com">>
SerializationFails(c) ==
    call[c].endpoint.data = None /\ call[c].endpoint.fields.kind = "unserializable"
BuildFails(c) == MalformedBase(c) \/ SerializationFails(c)

RequestHookOp(c) == call[c].middle.value.request.op
ResponseHookOp(c) == call[c].middle.value.response.op

----------------------------------------------------------------------------
(* The claims.                                                             *)

\* C1: in every middleware entry point the request hook is invoked after the
\* request has been built (body, then URL, method and query) and before the
\* client's execute, and the request execute receives is the request as the
\* hook left it: a header the hook added, or a body it wrote, is what the
\* transport observes.
C1_RequestHookBeforeExecute ==
    \A c \in CallIds :
        IsMut(c) =>
            /\ Has(log[c], "middle.request") =>
                   /\ Before(log[c], "build_body", "build_request")
                   /\ Before(log[c], "build_request", "middle.request")
            /\ Has(log[c], "client.execute") =>
                   /\ Before(log[c], "middle.request", "client.execute")
                   /\ IsSome(sent[c])
                   /\ sent[c] = req[c]
                   /\ sent[c].value.url.host = call[c].client.base[3]
                   /\ sent[c].value.method = call[c].endpoint.method
                   /\ sent[c].value.headers =
                          IF RequestHookOp(c) = "add_header" THEN {AuthHeader} ELSE {}
                   /\ RequestHookOp(c) = "set_body" =>
                          sent[c].value.body = HookRequestBody
            /\ pc[c] = "execute" => IsSome(req[c]) /\ sent[c] = None

C1_Witness ==
    \E c \in CallIds :
        /\ IsMut(c)
        /\ RequestHookOp(c) = "add_header"
        /\ pc[c] \in {"awaiting", "blocked"}
        /\ AuthHeader \in sent[c].value.headers

\* C2: in every middleware entry point the response hook is invoked after
\* the client's execute returned a response and before the body is parsed or
\* returned raw, and what is parsed or returned is the body as the hook left
\* it, not the body the transport produced.
C2_ResponseHookBeforeParse ==
    \A c \in CallIds :
        IsMut(c) =>
            /\ Has(log[c], "middle.response") =>
                   Before(log[c], "client.execute returns Ok", "middle.response")
            /\ Has(log[c], "parse") => Before(log[c], "middle.response", "parse")
            /\ Has(log[c], "raw") => Before(log[c], "middle.response", "raw")
            /\ (Has(log[c], "parse") \/ Has(log[c], "raw")) =>
                   LET hooked == IF ResponseHookOp(c) = "set_body"
                                 THEN call[c].middle.value.response.body
                                 ELSE call[c].client.transport.value IN
                   /\ IsDone(c)
                   /\ resp[c].value.body = hooked
                   /\ call[c].entry.shape = "raw" => ret[c] = Some(Ok(hooked))
                   /\ call[c].entry.shape = "typed" =>
                          ret[c] = Some(parse(RESPONSE_BODY_TYPE, hooked, "Result").result)
                   /\ call[c].entry.shape = "wrap" =>
                          ret[c] = Some(parse(RESPONSE_BODY_TYPE, hooked, "Wrapper").result)

C2_Witness ==
    \E c \in CallIds :
        /\ IsMut(c)
        /\ call[c].entry.shape = "typed"
        /\ call[c].client.transport = Ok(GarbageText)
        /\ call[c].middle.value.response = [op |-> "set_body", body |-> DigitText(MaxVal)]
        /\ IsDone(c)
        /\ ret[c] = Some(Ok(Some([type |-> "Result", v |-> MaxVal])))

\* C3: when request building fails (a base that is no URL gives
\* UrlParseError naming that base, a serialization failure gives
\* DataParseError) the call returns that error, the client's execute is never
\* invoked, and in a middleware entry point neither hook is invoked.
C3_BuildFailureSendsNothing ==
    \A c \in CallIds :
        BuildFails(c) =>
            /\ pc[c] \in {"build", "done"}
            /\ req[c] = None /\ sent[c] = None /\ resp[c] = None
            /\ ~Has(log[c], "client.execute")
            /\ ~Has(log[c], "middle.request")
            /\ ~Has(log[c], "middle.response")
            /\ IsDone(c) =>
                   /\ IsSome(ret[c]) /\ IsErr(ret[c].value)
                   /\ ret[c].value.error \in
                          {UrlParseError(call[c].client.base), DataParseError}
                   /\ ret[c].value.error.kind = "UrlParseError" => MalformedBase(c)
                   /\ ret[c].value.error.kind = "DataParseError" => SerializationFails(c)

C3_Witness ==
    \E c \in CallIds :
        /\ IsMut(c)
        /\ SerializationFails(c)
        /\ IsDone(c)
        /\ ret[c] = Some(Err(DataParseError))

\* C4: when the request hook fails the call returns exactly the hook's
\* error, and the client's execute, the response hook and the response
\* parser are never invoked.
C4_RequestHookFailureRejects ==
    \A c \in CallIds :
        (IsMut(c) /\ RequestHookOp(c) = "fail") =>
            /\ pc[c] \in {"build", "middle_request", "done"}
            /\ sent[c] = None /\ resp[c] = None
            /\ ~Has(log[c], "client.execute")
            /\ ~Has(log[c], "middle.response")
            /\ ~Has(log[c], "parse")
            /\ ~Has(log[c], "raw")
            /\ Has(log[c], "middle.request") =>
                   IsDone(c) /\ ret[c] = Some(Err(RequestHookError))

C4_Witness ==
    \E c \in CallIds :
        /\ IsMut(c)
        /\ RequestHookOp(c) = "fail"
        /\ Has(log[c], "middle.request")
        /\ ret[c] = Some(Err(RequestHookError))

\* C5: when the response hook fails the call fails with exactly the hook's
\* error, although the transport succeeded and whether or not the body would
\* have parsed; the body is not parsed and no typed, wrapped or raw result is
\* returned.
C5_ResponseHookFailureFailsCall ==
    \A c \in CallIds :
        (IsMut(c) /\ ResponseHookOp(c) = "fail") =>
            /\ ~Has(log[c], "parse")
            /\ ~Has(log[c], "deserialize")
            /\ ~Has(log[c], "raw")
            /\ IsSome(ret[c]) => IsErr(ret[c].value)
            /\ Has(log[c], "middle.response") =>
                   /\ Has(log[c], "client.execute returns Ok")
                   /\ IsDone(c)
                   /\ ret[c] = Some(Err(ResponseHookError))

C5_Witness ==
    \E c \in CallIds :
        /\ IsMut(c)
        /\ ResponseHookOp(c) = "fail"
        /\ call[c].entry.shape = "typed"
        /\ call[c].client.transport = Ok(DigitText(MaxVal))
        /\ Has(log[c], "middle.response")
        /\ ret[c] = Some(Err(ResponseHookError))

\* C6: when the client's execute returns an error, every entry point
\* returns that same error unchanged, and neither the response hook nor the
\* response parser is invoked.
C6_TransportErrorPropagates ==
    \A c \in CallIds :
        IsErr(call[c].client.transport) =>
            /\ resp[c] = None
            /\ pc[c] \notin {"middle_response", "output"}
            /\ ~Has(log[c], "middle.response")
            /\ ~Has(log[c], "parse")
            /\ ~Has(log[c], "deserialize")
            /\ ~Has(log[c], "raw")
            /\ Has(log[c], "client.execute returns Err") =>
                   IsDone(c) /\ ret[c] = Some(Err(TransportError))

C6_Witness ==
    \E c \in CallIds :
        /\ IsMut(c)
        /\ call[c].client.transport = Err(TransportError)
        /\ Has(log[c], "client.execute returns Err")
        /\ ret[c] = Some(Err(TransportError))

\* C7: no retries: in one call the client's execute is invoked at most once;
\* it has been invoked exactly once when the call is over and request
\* building (and, with middleware, the request hook) succeeded, and not at
\* all otherwise; a failure at any stage ends the call, and a call that is
\* over takes no further step.
C7_NoRetries ==
    /\ \A c \in CallIds :
           /\ Count(log[c], "client.execute") <= 1
           /\ Count(log[c], "client.execute returns Err")
                  + Count(log[c], "client.execute returns Ok") <= 1
           /\ IsDone(c) =>
                  (Count(log[c], "client.execute") = 1
                      <=> (~BuildFails(c) /\ (IsMut(c) => RequestHookOp(c) # "fail")))
           /\ (IsSome(ret[c]) /\ IsErr(ret[c].value)) => IsDone(c)
           /\ IsDone(c) <=> IsSome(ret[c])
    /\ (\A c \in CallIds : IsDone(c)) => ~ENABLED Next

C7_Witness ==
    \E c \in CallIds :
        /\ IsDone(c)
        /\ ret[c] = Some(Err(TransportError))
        /\ Count(log[c], "client.execute") = 1

\* The response body the entry point hands to the parser has zero length.
EmptyResponseBody(c) == IsSome(resp[c]) /\ Len(resp[c].value.body) = 0

\* C8: in every typed and wrapped entry point, a response body of zero
\* length (as the response hook left it, where there is one) gives Ok(None)
\* whatever the target type: nothing is deserialized and no
\* ResponseParseError is produced.
C8_EmptyBodyIsNone ==
    \A c \in CallIds :
        (call[c].entry.shape \in {"typed", "wrap"} /\ EmptyResponseBody(c)) =>
            /\ ~Has(log[c], "deserialize")
            /\ IsSome(ret[c]) =>
                   (IsOk(ret[c].value) \/ ret[c].value.error.kind # "ResponseParseError")
            /\ Has(log[c], "parse") => ret[c] = Some(Ok(None))
            /\ (IsDone(c) /\ ~(IsMut(c) /\ ResponseHookOp(c) = "fail")) =>
                   /\ Has(log[c], "parse")
                   /\ ret[c] = Some(Ok(None))

C8_Witness ==
    \E c \in CallIds :
        /\ call[c].entry.shape = "wrap"
        /\ call[c].client.transport = Ok(EmptyBytes)
        /\ EmptyResponseBody(c)
        /\ IsDone(c)
        /\ ret[c] = Some(Ok(None))

\* The request the call holds is the request as built: no request hook has
\* rewritten its body.
HoldsBuiltBody(c) ==
    /\ IsSome(req[c])
    /\ IsMut(c) => (pc[c] = "middle_request" \/ RequestHookOp(c) # "set_body")

\* C9: exactly one of the endpoint's serialization and its data override
\* determines the built body, and data wins: whenever data() returns a
\* value the built body is those bytes, whatever the fields are (they are not
\* serialized, so they cannot fail either), and the endpoint is serialized
\* exactly when data() is absent.
C9_DataOverrideWins ==
    \A c \in CallIds :
        /\ Has(log[c], "serialize") => call[c].endpoint.data = None
        /\ (Has(log[c], "build_body") /\ call[c].endpoint.data = None) =>
               Count(log[c], "serialize") = 1
        /\ IsSome(call[c].endpoint.data) =>
               /\ ret[c] # Some(Err(DataParseError))
               /\ HoldsBuiltBody(c) => req[c].value.body = call[c].endpoint.data.value

C9_Witness ==
    \E c \in CallIds :
        /\ ~IsMut(c)
        /\ call[c].endpoint.data = Some(JsonEmptyObject)
        /\ call[c].endpoint.fields.kind = "named"
        /\ pc[c] = "execute"
        /\ req[c].value.body = JsonEmptyObject

\* The body the default serialization gives: none for {} and null, the
\* serialized text otherwise.
SerializedBody(fields) ==
    IF fields.kind \in {"unit", "empty"} THEN EmptyBytes ELSE FieldsDoc(fields.n)

\* C10 as stated: for every endpoint with empty or absent data, the built
\* body is empty when the serialization is {} or null, and is the serialized
\* JSON bytes for any other serialization.
C10_Original ==
    \A c \in CallIds :
        ( /\ HoldsBuiltBody(c)
          /\ call[c].endpoint.data \in {None, Some(EmptyBytes)}
          /\ call[c].endpoint.fields.kind # "unserializable" ) =>
            req[c].value.body = SerializedBody(call[c].endpoint.fields)

\* C10, amended: for every endpoint with absent data, the built body is
\* empty when the serialization is {} or null and is the serialized JSON
\* bytes for any other serialization; for an endpoint whose data is present
\* and empty the built body is empty whatever the serialization.
C10_EmptySerializationSendsNoBody ==
    \A c \in CallIds :
        HoldsBuiltBody(c) =>
            /\ call[c].endpoint.data = None =>
                   /\ call[c].endpoint.fields.kind # "unserializable"
                   /\ req[c].value.body = SerializedBody(call[c].endpoint.fields)
                   /\ call[c].endpoint.fields.kind \in {"unit", "empty"} =>
                          req[c].value.body \notin {JsonEmptyObject, JsonNull}
            /\ call[c].endpoint.data = Some(EmptyBytes) =>
                   req[c].value.body = EmptyBytes

C10_Witness ==
    \E c \in CallIds :
        /\ call[c].endpoint.data = None
        /\ call[c].endpoint.fields.kind = "empty"
        /\ HoldsBuiltBody(c)
        /\ req[c].value.body = EmptyBytes

\* The body the entry point holds when it produces its output: the body the
\* response hook wrote, where a hook wrote one, and the transport's otherwise.
OutputBody(c) ==
    IF IsMut(c) /\ ResponseHookOp(c) = "set_body"
    THEN call[c].middle.value.response.body
    ELSE call[c].client.transport.value

\* C14: the raw entry points return exactly the response body bytes (the
\* transport's, or the bytes the response hook left) without parsing them:
\* they never return a ResponseParseError, and a zero-length body gives
\* Ok(empty bytes), not "no result".
C14_RawReturnsBodyBytes ==
    \A c \in CallIds :
        call[c].entry.shape = "raw" =>
            /\ ~Has(log[c], "parse")
            /\ ~Has(log[c], "deserialize")
            /\ (IsSome(ret[c]) /\ IsErr(ret[c].value)) =>
                   ret[c].value.error.kind # "ResponseParseError"
            /\ ( /\ IsDone(c)
                 /\ Has(log[c], "client.execute returns Ok")
                 /\ ~(IsMut(c) /\ ResponseHookOp(c) = "fail") ) =>
                   /\ Has(log[c], "raw")
                   /\ ret[c] = Some(Ok(OutputBody(c)))
                   /\ Len(OutputBody(c)) = 0 => ret[c] = Some(Ok(EmptyBytes))

C14_Witness ==
    \E c \in CallIds :
        /\ call[c].entry.shape = "raw"
        /\ ~IsMut(c)
        /\ call[c].client.transport = Ok(EmptyBytes)
        /\ IsDone(c)
        /\ ret[c] = Some(Ok(EmptyBytes))

\* C15: for a valid base URL the path segments of the built URL are the
\* base's path segments followed by the pieces of the endpoint path, the
\* method is the endpoint's, and the query parameters are the URL's query,
\* not part of its path: base http://api.example.com, path v1/items and GET
\* give GET http://api.example.com/v1/items.
C15_UrlComposition ==
    \A c \in CallIds :
        IsSome(req[c]) =>
            LET base == call[c].client.base
                url == req[c].value.url IN
            /\ ~MalformedBase(c)
            /\ url.scheme = base[1]
            /\ url.host = base[3]
            /\ url.segments = SubSeq(base, 4, Len(base)) \o call[c].endpoint.path
            /\ req[c].value.method = call[c].endpoint.method
            /\ url.query = IF call[c].endpoint.query = None THEN << >>
                           ELSE call[c].endpoint.query.value
            /\ \A i \in 1..Len(url.segments) :
                   \A j \in 1..Len(url.query) :
                       url.segments[i] \notin {url.query[j][1], url.query[j][2]}
            /\ ( /\ base = <<"http:", "", "api.example.com">>
                 /\ call[c].endpoint.path = <<"v1", "items">> ) =>
                   /\ url = [scheme |-> "http:", host |-> "api.example.com",
                             segments |-> <<"v1", "items">>, query |-> << >>]
                   /\ req[c].value.method = "GET"
            /\ IsSome(sent[c]) => sent[c].value.url = url

C15_Witness ==
    \E c \in CallIds :
        /\ call[c].client.base = <<"http:", "", "api.example.com", "api">>
        /\ call[c].endpoint.path = <<"x">>
        /\ IsSome(sent[c])
        /\ sent[c].value.url.segments = <<"api", "x">>
        /\ sent[c].value.url.query = << <<"a", "1">> >>
        /\ sent[c].value.method = "POST"

\* The bodies that deserialize into the target type of call c.
Deserializable(c) ==
    IF call[c].entry.shape = "wrap" THEN { WrapperDoc(v) : v \in 0..9 }
    ELSE { DigitText(v) : v \in 0..9 }

\* C16: when a non-empty response body fails to deserialize into the Result
\* or Wrapper type, the call returns a ResponseParseError whose content is
\* the body as text when the body is valid UTF-8 and is absent when it is
\* not; the call returns no value.
C16_ParseErrorKeepsBody ==
    \A c \in CallIds :
        ( /\ call[c].entry.shape \in {"typed", "wrap"}
          /\ Has(log[c], "parse")
          /\ Len(resp[c].value.body) > 0
          /\ resp[c].value.body \notin Deserializable(c) ) =>
            /\ IsDone(c)
            /\ Has(log[c], "deserialize")
            /\ IsErr(ret[c].value)
            /\ ret[c].value.error.kind = "ResponseParseError"
            /\ ret[c].value.error.content =
                   IF resp[c].value.body = NotUtf8 THEN None
                   ELSE Some(resp[c].value.body)

C16_Witness ==
    \E c \in CallIds :
        /\ call[c].entry.name = "exec_wrap_mut"
        /\ resp[c] # None
        /\ resp[c].value.body = NotUtf8
        /\ IsDone(c)
        /\ ret[c] = Some(Err(ResponseParseError(None)))

\* C18: in one call of a middleware entry point each hook is invoked at most
\* once, the request hook if and only if request building succeeded and the
\* response hook if and only if the client's execute returned a response; in
\* an entry point without middleware no hook is ever invoked.
C18_HooksAtMostOnce ==
    \A c \in CallIds :
        /\ Count(log[c], "middle.request") <= 1
        /\ Count(log[c], "middle.response") <= 1
        /\ ~IsMut(c) =>
               /\ ~Has(log[c], "middle.request")
               /\ ~Has(log[c], "middle.response")
               /\ pc[c] \notin {"middle_request", "middle_response"}
        /\ IsMut(c) =>
               /\ Has(log[c], "middle.request") =>
                      (~BuildFails(c) /\ IsSome(req[c]))
               /\ Has(log[c], "middle.response") =>
                      Has(log[c], "client.execute returns Ok")
               /\ (IsSome(req[c]) /\ pc[c] # "middle_request") =>
                      Has(log[c], "middle.request")
               /\ ( /\ Has(log[c], "client.execute returns Ok")
                    /\ pc[c] # "middle_response" ) =>
                      Has(log[c], "middle.response")
               /\ IsDone(c) =>
                      /\ Has(log[c], "middle.request") <=> ~BuildFails(c)
                      /\ Has(log[c], "middle.response") <=>
                             ( /\ ~BuildFails(c)
                               /\ RequestHookOp(c) # "fail"
                               /\ IsOk(call[c].client.transport) )

C18_Witness ==
    \E c \in CallIds :
        /\ IsMut(c)
        /\ IsDone(c)
        /\ Count(log[c], "middle.request") = 1
        /\ Count(log[c], "middle.response") = 1
        /\ IsOk(ret[c].value)

\* C19: in the middleware entry points "an empty body means no result" is
\* decided on the body after the response hook: a hook that rewrites a
\* non-empty transport body to zero length makes the typed or wrapped call
\* return Ok(None), and a hook that rewrites an empty transport body to a
\* non-empty one has that body parsed.
C19_EmptinessDecidedAfterHook ==
    \A c \in CallIds :
        ( /\ IsMut(c)
          /\ call[c].entry.shape \in {"typed", "wrap"}
          /\ IsDone(c)
          /\ Has(log[c], "middle.response")
          /\ ResponseHookOp(c) = "set_body" ) =>
            LET written == call[c].middle.value.response.body
                produced == call[c].client.transport.value IN
            /\ Has(log[c], "parse")
            /\ (Len(produced) > 0 /\ Len(written) = 0) =>
                   /\ ret[c] = Some(Ok(None))
                   /\ ~Has(log[c], "deserialize")
            /\ (Len(produced) = 0 /\ Len(written) > 0) =>
                   /\ Has(log[c], "deserialize")
                   /\ ret[c] # Some(Ok(None))
                   /\ call[c].entry.shape = "typed" =>
                          ret[c] = Some(Ok(Some([type |-> "Result",
                                                 v |-> written[1] - 48])))
                   /\ call[c].entry.shape = "wrap" =>
                          ret[c] = Some(Err(ResponseParseError(Some(written))))

C19_Witness ==
    \E c \in CallIds :
        /\ IsMut(c)
        /\ call[c].entry.shape = "typed"
        /\ call[c].client.transport = Ok(DigitText(MaxVal))
        /\ call[c].middle.value.response = [op |-> "set_body", body |-> EmptyBytes]
        /\ IsDone(c)
        /\ ret[c] = Some(Ok(None))

\* l1 and l2 agree as far as the shorter of the two goes.
Agree(l1, l2) ==
    \A i \in 1..(IF Len(l1) < Len(l2) THEN Len(l1) ELSE Len(l2)) : l1[i] = l2[i]

\* C11: the blocking and the asynchronous code paths have the same
\* semantics: for the same endpoint, base URL, transport and middleware, a
\* _block entry point makes the same build, hook and transport invocations
\* in the same order, hands the transport the same request and returns the
\* same value or the same error as its asynchronous counterpart.
C11_BlockingMatchesAsync ==
    \A a, b \in CallIds :
        ( /\ ~call[a].entry.block
          /\ call[b] = [call[a] EXCEPT !.entry = BlockForm(call[a].entry)] ) =>
            /\ Agree(log[a], log[b])
            /\ Len(log[a]) = Len(log[b]) =>
                   /\ req[a] = req[b]
                   /\ sent[a] = sent[b]
                   /\ resp[a] = resp[b]
                   /\ ret[a] = ret[b]
            /\ (IsDone(a) /\ IsDone(b)) =>
                   /\ log[a] = log[b]
                   /\ ret[a] = ret[b]

C11_Witness ==
    \E a, b \in CallIds :
        /\ call[a].entry.name = "exec_wrap_mut"
        /\ call[b].entry.name = "exec_wrap_mut_block"
        /\ RequestHookOp(a) = "add_header"
        /\ ResponseHookOp(a) = "keep"
        /\ IsDone(a) /\ IsDone(b)
        /\ ret[a] = Some(Ok(Some([type |-> "Wrapper", d |-> MaxVal])))
        /\ ret[b] = ret[a]
        /\ Has(log[b], "middle.response")

\* The invocations of a log other than the middleware hooks.
WithoutHooks(l) ==
    SelectSeq(l, LAMBDA e : e \notin {"middle.request", "middle.response"})

\* C17: a middleware whose two hooks change nothing and return Ok(()) is
\* the same as no middleware: a _mut entry point given such a middleware
\* hands the transport the same request, and returns the same value or the
\* same error, as the entry point without middleware called with the same
\* endpoint and client; apart from the two hooks it makes the same
\* invocations in the same order.
C17_NoOpMiddlewareIsNoMiddleware ==
    \A a, b \in CallIds :
        ( /\ ~call[a].entry.mut
          /\ call[b] = [call[a] EXCEPT !.entry = MutForm(call[a].entry),
                                       !.middle = Some(NoOpMiddleWare)] ) =>
            /\ Agree(log[a], WithoutHooks(log[b]))
            /\ (IsSome(sent[a]) /\ IsSome(sent[b])) => sent[a] = sent[b]
            /\ (IsSome(resp[a]) /\ pc[b] \in {"output", "done"}) =>
                   resp[a] = resp[b]
            /\ (IsDone(a) /\ IsDone(b)) =>
                   /\ ret[a] = ret[b]
                   /\ sent[a] = sent[b]
                   /\ log[a] = WithoutHooks(log[b])

C17_Witness ==
    \E a, b \in CallIds :
        /\ call[a].entry.name = "exec"
        /\ call[b].entry.name = "exec_mut"
        /\ call[b].middle = Some(NoOpMiddleWare)
        /\ IsDone(a) /\ IsDone(b)
        /\ Count(log[b], "middle.request") = 1
        /\ Count(log[b], "middle.response") = 1
        /\ IsSome(sent[b]) /\ sent[a] = sent[b]
        /\ ret[b] = Some(Ok(Some([type |-> "Result", v |-> MaxVal])))
        /\ ret[a] = ret[b]

\* What one call returns, and the request it hands to the transport, when
\* its entry point runs from entry to return with nothing beside it.
Alone(in) ==
    LET target == IF in.entry.shape = "wrap" THEN "Wrapper" ELSE "Result"
        b == IF in.entry.mut
             THEN build_mut_request(in.client.base, in.endpoint)
             ELSE build(in.client.base, in.endpoint)
        q == IF in.entry.mut
             THEN MiddleWare_request(in.middle.value, in.endpoint, b.result.value)
             ELSE b.result
        r == Client_execute(in.client, q.value)
        p == IF in.entry.mut
             THEN MiddleWare_response(in.middle.value, in.endpoint, r.value)
             ELSE r
    IN  IF IsErr(b.result) THEN [sent |-> None, ret |-> b.result]
        ELSE IF IsErr(q) THEN [sent |-> None, ret |-> q]
        ELSE IF IsErr(r) THEN [sent |-> Some(q.value), ret |-> r]
        ELSE IF IsErr(p) THEN [sent |-> Some(q.value), ret |-> p]
        ELSE [sent |-> Some(q.value),
              ret |-> IF in.entry.shape = "raw" THEN Ok(p.value.body)
                      ELSE parse(RESPONSE_BODY_TYPE, p.value.body, target).result]

\* Alone is what the single call of Spec does.
AloneIsTheSingleCall ==
    \A c \in CallIds :
        /\ IsSome(sent[c]) => sent[c] = Alone(call[c]).sent
        /\ IsDone(c) => /\ ret[c] = Some(Alone(call[c]).ret)
                        /\ sent[c] = Alone(call[c]).sent

\* What each call holds is what it would hold alone.
OwnRequestOwnResponse ==
    \A c \in CallIds :
        /\ IsSome(sent[c]) => sent[c] = Alone(call[c]).sent
        /\ IsSome(resp[c]) =>
               \/ resp[c] = Some(Client_execute(call[c].client, sent[c].value).value)
               \/ /\ IsMut(c)
                  /\ pc[c] \in {"output", "done"}
                  /\ resp[c] = Some(MiddleWare_response(call[c].middle.value,
                           call[c].endpoint,
                           Client_execute(call[c].client, sent[c].value).value).value)
        /\ IsDone(c) => /\ ret[c] = Some(Alone(call[c]).ret)
                        /\ sent[c] = Alone(call[c]).sent

\* C12: concurrent calls share no mutable state: however the steps of
\* calls with the same client and the same middleware interleave, the
\* request a call hands to the transport is the one built from its own
\* endpoint, the response it holds is the answer to its own request, what it
\* returns is what it would have returned running alone, and no step of any
\* call changes an endpoint.
C12_CallsShareNoState ==
    /\ []OwnRequestOwnResponse
    /\ [][call' = call]_vars

C12_Witness ==
    \E a, b, d \in CallIds :
        /\ a # b /\ a # d /\ b # d
        /\ call[a].client.transport = EchoTransport
        /\ call[a].entry.name = "exec" /\ call[b].entry.name = "exec_raw_mut"
        /\ call[d].entry.name = "exec_mut_block"
        /\ pc[a] = "awaiting" /\ pc[b] = "awaiting"
        /\ sent[a] # sent[b]
        /\ call[d].endpoint # call[a].endpoint
        /\ IsDone(d) /\ IsOk(ret[d].value)
        /\ ret[d] = Some(Alone(call[d]).ret)

\* The calls that run as tasks of the executor.
IsTask(c) == ~call[c].entry.block

\* The task has begun and has not returned, and is not waiting on the
\* client's execute: it is building, in a hook, or parsing.
Working(c) ==
    pc[c] \in {"middle_request", "execute", "middle_response", "output"}

\* A task that is working holds the executor; a task waiting on the
\* client's execute does not, and no task reaches that wait twice.
SuspendsOnlyInExecute ==
    \A c \in CallIds :
        IsTask(c) =>
            /\ Working(c) => running = c
            /\ pc[c] = "awaiting" => running # c
            /\ Count(log[c], "client.execute") <= 1

\* A step of one task while another task has begun and not returned
\* happens only while the other waits on the client's execute.
StepsOnlyWhileOthersWait ==
    \A c, d \in CallIds :
        (IsTask(c) /\ IsTask(d) /\ c # d /\ pc'[d] # pc[d]) =>
            pc[c] \in {"build", "awaiting", "done"}

\* C13: an asynchronous execution suspends at one point only, the call of
\* the client's execute: from the request built to the request handed over,
\* and from the response received to the return, the task keeps the
\* executor, so another task takes a step during a call only while that
\* call waits on the client's execute.
C13_SingleSuspensionPoint ==
    /\ []SuspendsOnlyInExecute
    /\ [][StepsOnlyWhileOthersWait]_vars

C13_Witness ==
    \E c, d \in CallIds :
        /\ c # d
        /\ IsTask(c) /\ IsTask(d)
        /\ pc[c] = "awaiting"
        /\ Has(log[c], "middle.request")
        /\ pc[d] = "output"
        /\ running = d

====
